---- MODULE Spec2Model ----
(***************************************************************************)
(* Model of the farm economy of cli_farm.                                  *)
(*                                                                         *)
(* farm.rs (with util.rs) is the current revision of the Farm; main.rs is  *)
(* an earlier, standalone revision with its own Farm.  Both are modelled:  *)
(* the farm.rs Farm in the variables name, money, fields, last and the     *)
(* main.rs Farm in main_money, main_fields, main_last.                     *)
(*                                                                         *)
(* Money is f64 in the source.  Every amount the program computes within   *)
(* the bounds below is a dyadic rational with at most 20 fractional bits   *)
(* and a magnitude far below 2^33, so every f64 operation on it is exact.  *)
(* An amount is therefore modelled as the record [w, f] standing for       *)
(* w + f / 2^20 with 0 <= f < 2^20 (two limbs, because the numerators do   *)
(* not fit the model checker's integers).                                  *)
(*                                                                         *)
(* Timestamps are u128 milliseconds since the UNIX epoch in the source.    *)
(* The model measures them from the start of the session (now = 0), so a   *)
(* timestamp is the source's value minus that origin.                      *)
(***************************************************************************)
EXTENDS Integers, Sequences, FiniteSets, TLC

VARIABLES name, money, fields, now, last, main_money, main_fields, main_last,
          file, at_save, shown

vars == <<name, money, fields, now, last, main_money, main_fields, main_last,
          file, at_save, shown>>

farm_vars == <<name, money, fields, last>>

main_vars == <<main_money, main_fields, main_last>>

\* file: the contents of save.json (None while the file does not exist);
\* at_save: the farm as it was when save.json was last written
disk_vars == <<file, at_save>>

\* shown: what the menu entry taken last printed about the fields, one line
\* per time_to_farm it evaluated or skipped
cli_vars == <<shown>>

(***************************************************************************)
(* Bounds of the exploration.                                              *)
(***************************************************************************)
\* buy_field is explored while the farm has fewer fields than this
MaxFields == 2

\* the clock is advanced up to this many milliseconds after session start
MaxTime == 200000

\* a harvest is explored while the balance after it stays within this
MaxMoney == 30

\* main.rs plant_field is explored while the balance is above minus this
MaxDebt == 3

\* level_up_price is evaluated on fields of level 1 up to this (Level = u8)
MaxLevelInput == 25

(***************************************************************************)
(* Money = f64, as exact two-limb fixed point.                             *)
(***************************************************************************)
Scale == 2^20

Norm(w, f) == [w |-> w + (f \div Scale), f |-> f % Scale]

MInt(n) == [w |-> n, f |-> 0]

MAdd(a, b) == Norm(a.w + b.w, a.f + b.f)

MSub(a, b) == Norm(a.w - b.w, a.f - b.f)

MLt(a, b) == a.w < b.w \/ (a.w = b.w /\ a.f < b.f)

MGt(a, b) == MLt(b, a)

MLe(a, b) == ~MLt(b, a)

MMulInt(a, k) == Norm(a.w * k, a.f * k)

MHalf(a) == Norm(a.w \div 2, ((a.w % 2) * Scale + a.f) \div 2)

\* a * b for dyadic a: a is doubled until it is whole, the product halved back
RECURSIVE MMul(_, _)
MMul(a, b) ==
    IF a.f = 0 THEN MMulInt(b, a.w)
    ELSE MHalf(MMul(MMulInt(a, 2), b))

\* f64::powi: x^n; every intermediate product is exact, so the order of the
\* multiplications does not matter
RECURSIVE Powi(_, _)
Powi(x, n) == IF n = 0 THEN MInt(1) ELSE MMul(x, Powi(x, n - 1))

(***************************************************************************)
(* Option<u128>                                                            *)
(***************************************************************************)
None == <<>>

Some(t) == <<t>>

is_some(o) == o # None

unwrap(o) == o[1]

(***************************************************************************)
(* Crop                                                                    *)
(***************************************************************************)
Crop == {"Wheat", "Potato", "Carrot"}

get_new_field_price(crop) ==
    CASE crop = "Wheat" -> MInt(10)
      [] crop = "Potato" -> MInt(100)
      [] crop = "Carrot" -> MInt(1000)

get_planting_price(crop) ==
    CASE crop = "Wheat" -> MInt(1)
      [] crop = "Potato" -> MInt(20)
      [] crop = "Carrot" -> MInt(50)

\* variant: the Wheat cap set one too high
get_max_level_wheat6(crop) ==
    CASE crop = "Wheat" -> 6
      [] crop = "Potato" -> 10
      [] crop = "Carrot" -> 20

get_max_level(crop) ==
    CASE crop = "Wheat" -> 5
      [] crop = "Potato" -> 10
      [] crop = "Carrot" -> 20

\* 0.5
level_multiplier(crop) == MHalf(MInt(1))

seconds_to_millis(seconds) == seconds * 1000

grow_time(crop) ==
    LET time == CASE crop = "Wheat" -> 100
                  [] crop = "Potato" -> 300
                  [] crop = "Carrot" -> 1000
    IN  seconds_to_millis(time)

payout(crop) ==
    CASE crop = "Wheat" -> MInt(1)
      [] crop = "Potato" -> MInt(10)
      [] crop = "Carrot" -> MInt(100)

\* variant: the level multiplier is not halved (the formula of main.rs)
get_next_level_price_unhalved(crop, level) ==
    LET base_price == MMul(get_planting_price(crop), MInt(10))
        lm == level_multiplier(crop)
        price == MMul(base_price, MMul(lm, MInt(level)))
    IN  price

get_next_level_price(crop, level) ==
    LET base_price == MMul(get_planting_price(crop), MInt(10))
        lm == MHalf(level_multiplier(crop))
        price == MMul(base_price, MMul(lm, MInt(level)))
    IN  price

(***************************************************************************)
(* GameError, and the results of the operations                            *)
(***************************************************************************)
GameError == {"InsufficientFunds", "MaxLevelReached", "OutOfBounds",
              "AlreadyPlanted", "AlreadyFarmed", "NotYetReady",
              "TooManyFields"}

Ok == "Ok"

(***************************************************************************)
(* Field                                                                   *)
(***************************************************************************)
Field_new(crop) == [crop |-> crop, level |-> 1, plant_timestamp |-> None]

\* variant: the price is quoted without looking at the level cap
level_up_price_unchecked(field) ==
    [res |-> Ok, price |-> get_next_level_price(field.crop, field.level)]

\* variant: the cap is compared with > instead of >=
level_up_price_off_by_one(field) ==
    IF field.level > get_max_level(field.crop)
    THEN [res |-> "MaxLevelReached", price |-> MInt(0)]
    ELSE [res |-> Ok, price |-> get_next_level_price(field.crop, field.level)]

\* Result<Money>: [res, price]
level_up_price(field) ==
    IF field.level >= get_max_level(field.crop)
    THEN [res |-> "MaxLevelReached", price |-> MInt(0)]
    ELSE [res |-> Ok, price |-> get_next_level_price(field.crop, field.level)]

\* variant: levelling up a field takes its crop off the field
level_up_clears_timestamp(field) ==
    IF field.level >= get_max_level(field.crop)
    THEN [res |-> "MaxLevelReached", field |-> field]
    ELSE [res |-> Ok, field |-> [field EXCEPT !.level = @ + 1, !.plant_timestamp = None]]

\* Result<()> and the field afterwards: [res, field]
level_up(field) ==
    IF field.level >= get_max_level(field.crop)
    THEN [res |-> "MaxLevelReached", field |-> field]
    ELSE [res |-> Ok, field |-> [field EXCEPT !.level = @ + 1]]

planted(field) == is_some(field.plant_timestamp)

\* variant: a planted field is refused only after the timestamp is written
plant_overwrites(field, timestamp) ==
    [res |-> IF planted(field) THEN "AlreadyPlanted" ELSE Ok,
     field |-> [field EXCEPT !.plant_timestamp = Some(timestamp)]]

plant(field, timestamp) ==
    IF planted(field)
    THEN [res |-> "AlreadyPlanted", field |-> field]
    ELSE [res |-> Ok, field |-> [field EXCEPT !.plant_timestamp = Some(timestamp)]]

\* variant: the remaining time is not clamped at zero
time_to_farm_unclamped(field, timestamp) ==
    grow_time(field.crop) - (timestamp - unwrap(field.plant_timestamp))

\* grow_time.checked_sub(timestamp - plant_timestamp).unwrap_or(0).  Were
\* timestamp below plant_timestamp, the u128 subtraction would wrap to a
\* difference above every grow time (checked_sub yields None) or, in a build
\* with overflow checks, abort; under the clock of Spec and SpecMain a
\* plant_timestamp is never above the timestamp read.
time_to_farm(field, timestamp) ==
    LET elapsed == timestamp - unwrap(field.plant_timestamp)
    IN  IF elapsed < 0 THEN 0
        ELSE IF elapsed > grow_time(field.crop) THEN 0
        ELSE grow_time(field.crop) - elapsed

\* timestamp - plant_timestamp in u128 (line 127), for every timestamp: below
\* zero the subtraction panics in a build with overflow checks (the default
\* of a debug build) and wraps modulo 2^128 in a build without them (the
\* default of a release build); "wrapped" stands for the wrapped difference,
\* which is above every grow time.
elapsed_u128(field, timestamp) ==
    LET d == timestamp - unwrap(field.plant_timestamp)
    IN  IF d >= 0 THEN {[res |-> Ok, millis |-> d]}
        ELSE {[res |-> "panic", millis |-> 0], [res |-> "wrapped", millis |-> 0]}

\* Field::time_to_farm in either build: checked_sub of a wrapped difference
\* is None, which unwrap_or turns into 0
time_to_farm_any_build(field, timestamp) ==
    { IF e.res = "panic" THEN [res |-> "panic", left |-> 0]
      ELSE IF e.res = "wrapped" THEN [res |-> Ok, left |-> 0]
      ELSE [res |-> Ok, left |-> time_to_farm(field, timestamp)] :
      e \in elapsed_u128(field, timestamp) }


\* Field::time_to_farm on any field: plant_timestamp.unwrap() (line 127)
\* panics on an Idle field
time_to_farm_or_panic(field, timestamp) ==
    IF ~is_some(field.plant_timestamp) THEN [res |-> "panic", left |-> 0]
    ELSE [res |-> Ok, left |-> time_to_farm(field, timestamp)]

\* variant: the harvest does not wait for the grow time
Field_farm_no_wait(field, timestamp) ==
    IF ~planted(field) THEN [res |-> "AlreadyFarmed", field |-> field]
    ELSE [res |-> Ok, field |-> [field EXCEPT !.plant_timestamp = None]]

\* variant: a successful harvest leaves the timestamp in place
Field_farm_keeps_timestamp(field, timestamp) ==
    IF ~planted(field) THEN [res |-> "AlreadyFarmed", field |-> field]
    ELSE IF time_to_farm(field, timestamp) > 0
         THEN [res |-> "NotYetReady", field |-> field]
         ELSE [res |-> Ok, field |-> field]

\* variant: a successful harvest resets the field to a new field of its crop
Field_farm_resets_field(field, timestamp) ==
    IF ~planted(field) THEN [res |-> "AlreadyFarmed", field |-> field]
    ELSE IF time_to_farm(field, timestamp) > 0
         THEN [res |-> "NotYetReady", field |-> field]
         ELSE [res |-> Ok, field |-> Field_new(field.crop)]

\* Field::farm, reading util::timestamp() as timestamp
Field_farm(field, timestamp) ==
    IF ~planted(field) THEN [res |-> "AlreadyFarmed", field |-> field]
    ELSE IF time_to_farm(field, timestamp) > 0
         THEN [res |-> "NotYetReady", field |-> field]
         ELSE [res |-> Ok, field |-> [field EXCEPT !.plant_timestamp = None]]

\* variant: linear instead of compounding growth (the formula of main.rs)
earnings_linear(field) ==
    LET p == payout(field.crop)
    IN  MMul(p, MAdd(MInt(1), MMul(level_multiplier(field.crop), MInt(field.level))))

earnings(field) ==
    LET p == payout(field.crop)
    IN  MMul(p, Powi(MAdd(MInt(1), level_multiplier(field.crop)), field.level))

(***************************************************************************)
(* Farm (farm.rs)                                                          *)
(***************************************************************************)
\* what the last call of a Farm operation was and what it returned
Return(op, res, amount) == [op |-> op, res |-> res, amount |-> amount]

NoCall == Return("none", Ok, MInt(0))

\* Vec::get / get_mut with a u32 index
InBounds(fs, id) == id < Len(fs)

Get(fs, id) == fs[id + 1]

Set(fs, id, field) == [fs EXCEPT ![id + 1] = field]

\* the indices a caller passes: every valid one and one past the end
Ids == 0..MaxFields

\* variant: the starting balance is 10
Farm_new_poor == [money |-> MInt(10), fields |-> <<>>]

Farm_new == [money |-> MInt(20), fields |-> <<>>]

\* variant: a balance equal to the price is refused
buy_field_strict(crop) ==
    LET price == get_new_field_price(crop)
    IN  /\ Len(fields) < MaxFields
        /\ IF MLe(money, price)
           THEN /\ last' = Return("buy_field", "InsufficientFunds", MInt(0))
                /\ UNCHANGED <<money, fields>>
           ELSE /\ fields' = Append(fields, Field_new(crop))
                /\ money' = MSub(money, price)
                /\ last' = Return("buy_field", Ok, MInt(0))
        /\ UNCHANGED <<name, now, main_vars, cli_vars, disk_vars>>

\* variant: the field is pushed before the funds are checked
buy_field_push_first(crop) ==
    LET price == get_new_field_price(crop)
    IN  /\ Len(fields) < MaxFields
        /\ fields' = Append(fields, Field_new(crop))
        /\ IF MLt(money, price)
           THEN /\ last' = Return("buy_field", "InsufficientFunds", MInt(0))
                /\ UNCHANGED money
           ELSE /\ money' = MSub(money, price)
                /\ last' = Return("buy_field", Ok, MInt(0))
        /\ UNCHANGED <<name, now, main_vars, cli_vars, disk_vars>>

\* variant: the farm holds one field at most and refuses more with TooManyFields
buy_field_capped(crop) ==
    LET price == get_new_field_price(crop)
    IN  /\ Len(fields) < MaxFields
        /\ IF Len(fields) >= 1
           THEN /\ last' = Return("buy_field", "TooManyFields", MInt(0))
                /\ UNCHANGED <<money, fields>>
           ELSE IF MLt(money, price)
           THEN /\ last' = Return("buy_field", "InsufficientFunds", MInt(0))
                /\ UNCHANGED <<money, fields>>
           ELSE /\ fields' = Append(fields, Field_new(crop))
                /\ money' = MSub(money, price)
                /\ last' = Return("buy_field", Ok, MInt(0))
        /\ UNCHANGED <<name, now, main_vars, cli_vars, disk_vars>>

\* variant: the new field is inserted at the front of the list
buy_field_prepend(crop) ==
    LET price == get_new_field_price(crop)
    IN  /\ Len(fields) < MaxFields
        /\ IF MLt(money, price)
           THEN /\ last' = Return("buy_field", "InsufficientFunds", MInt(0))
                /\ UNCHANGED <<money, fields>>
           ELSE /\ fields' = <<Field_new(crop)>> \o fields
                /\ money' = MSub(money, price)
                /\ last' = Return("buy_field", Ok, MInt(0))
        /\ UNCHANGED <<name, now, main_vars, cli_vars, disk_vars>>

buy_field(crop) ==
    LET price == get_new_field_price(crop)
    IN  /\ Len(fields) < MaxFields
        /\ IF MLt(money, price)
           THEN /\ last' = Return("buy_field", "InsufficientFunds", MInt(0))
                /\ UNCHANGED <<money, fields>>
           ELSE /\ fields' = Append(fields, Field_new(crop))
                /\ money' = MSub(money, price)
                /\ last' = Return("buy_field", Ok, MInt(0))
        /\ UNCHANGED <<name, now, main_vars, cli_vars, disk_vars>>

\* Farm::level_up_field; level_up_field is a call of it that prints nothing
\* about the fields
Farm_level_up_field(id) ==
    /\ IF ~InBounds(fields, id)
       THEN /\ last' = Return("level_up_field", "OutOfBounds", MInt(0))
            /\ UNCHANGED <<money, fields>>
       ELSE LET field == Get(fields, id)
                check == level_up_price(field)
            IN  IF check.res # Ok
                THEN /\ last' = Return("level_up_field", check.res, MInt(0))
                     /\ UNCHANGED <<money, fields>>
                ELSE IF MGt(check.price, money)
                THEN /\ last' = Return("level_up_field", "InsufficientFunds", MInt(0))
                     /\ UNCHANGED <<money, fields>>
                ELSE LET price == level_up_price(field)
                         up == level_up(field)
                     IN  IF price.res # Ok
                         THEN /\ last' = Return("level_up_field", price.res, MInt(0))
                              /\ UNCHANGED <<money, fields>>
                         ELSE IF up.res # Ok
                         THEN /\ last' = Return("level_up_field", up.res, MInt(0))
                              /\ UNCHANGED <<money, fields>>
                         ELSE /\ fields' = Set(fields, id, up.field)
                              /\ money' = MSub(money, price.price)
                              /\ last' = Return("level_up_field", Ok, MInt(0))
    /\ UNCHANGED <<name, now, main_vars, disk_vars>>

level_up_field(id) == Farm_level_up_field(id) /\ UNCHANGED cli_vars

\* Farm::plant_field; plant_field is a call of it that prints nothing about
\* the fields
Farm_plant_field(id) ==
    /\ IF ~InBounds(fields, id)
       THEN /\ last' = Return("plant_field", "OutOfBounds", MInt(0))
            /\ UNCHANGED <<money, fields>>
       ELSE LET field == Get(fields, id)
            IN  IF MGt(get_planting_price(field.crop), money)
                THEN /\ last' = Return("plant_field", "InsufficientFunds", MInt(0))
                     /\ UNCHANGED <<money, fields>>
                ELSE LET r == plant(field, now)
                     IN  /\ money' = MSub(money, get_planting_price(field.crop))
                         /\ fields' = Set(fields, id, r.field)
                         /\ last' = Return("plant_field", r.res, MInt(0))
    /\ UNCHANGED <<name, now, main_vars, disk_vars>>

\* variant: no funds check before the debit (as in main.rs)
plant_field_unchecked(id) ==
    /\ IF ~InBounds(fields, id)
       THEN /\ last' = Return("plant_field", "OutOfBounds", MInt(0))
            /\ UNCHANGED <<money, fields>>
       ELSE LET field == Get(fields, id)
                r == plant(field, now)
            IN  /\ money' = MSub(money, get_planting_price(field.crop))
                /\ fields' = Set(fields, id, r.field)
                /\ last' = Return("plant_field", r.res, MInt(0))
    /\ UNCHANGED <<name, now, main_vars, cli_vars, disk_vars>>

plant_field(id) == Farm_plant_field(id) /\ UNCHANGED cli_vars

\* Farm::farm_field; farm_field is a call of it that prints nothing about
\* the fields
Farm_farm_field(id) ==
    /\ IF ~InBounds(fields, id)
       THEN /\ last' = Return("farm_field", "OutOfBounds", MInt(0))
            /\ UNCHANGED <<money, fields>>
       ELSE LET r == Field_farm(Get(fields, id), now)
            IN  IF r.res # Ok
                THEN /\ last' = Return("farm_field", r.res, MInt(0))
                     /\ UNCHANGED <<money, fields>>
                ELSE LET pay == earnings(r.field)
                     IN  /\ MLe(MAdd(money, pay), MInt(MaxMoney))
                         /\ fields' = Set(fields, id, r.field)
                         /\ money' = MAdd(money, pay)
                         /\ last' = Return("farm_field", Ok, pay)
    /\ UNCHANGED <<name, now, main_vars, disk_vars>>

\* variant: an index past the end addresses the last field
farm_field_clamped(id) ==
    /\ IF Len(fields) = 0
       THEN /\ last' = Return("farm_field", "OutOfBounds", MInt(0))
            /\ UNCHANGED <<money, fields>>
       ELSE LET at == IF InBounds(fields, id) THEN id ELSE Len(fields) - 1
                r == Field_farm(Get(fields, at), now)
            IN  IF r.res # Ok
                THEN /\ last' = Return("farm_field", r.res, MInt(0))
                     /\ UNCHANGED <<money, fields>>
                ELSE LET pay == earnings(r.field)
                     IN  /\ MLe(MAdd(money, pay), MInt(MaxMoney))
                         /\ fields' = Set(fields, at, r.field)
                         /\ money' = MAdd(money, pay)
                         /\ last' = Return("farm_field", Ok, pay)
    /\ UNCHANGED <<name, now, main_vars, cli_vars, disk_vars>>

farm_field(id) == Farm_farm_field(id) /\ UNCHANGED cli_vars

(***************************************************************************)
(* Farm::sell_field, which cli.rs calls (menu entry 6) and farm.rs does    *)
(* not contain; modelled from the specification: OutOfBounds for an        *)
(* invalid index, otherwise the field is removed, later fields move down   *)
(* by one, and money is credited with the acquisition price of the field's *)
(* crop, which is returned.                                                *)
(***************************************************************************)
Remove(fs, id) == SubSeq(fs, 1, id) \o SubSeq(fs, id + 2, Len(fs))

sell_field(id) ==
    /\ IF ~InBounds(fields, id)
       THEN /\ last' = Return("sell_field", "OutOfBounds", MInt(0))
            /\ UNCHANGED <<money, fields>>
       ELSE LET price == get_new_field_price(Get(fields, id).crop)
            IN  /\ MLe(MAdd(money, price), MInt(MaxMoney))
                /\ fields' = Remove(fields, id)
                /\ money' = MAdd(money, price)
                /\ last' = Return("sell_field", Ok, price)
    /\ UNCHANGED <<name, now, main_vars, cli_vars, disk_vars>>

(***************************************************************************)
(* save.json: serde_json::to_string and from_str of the Farm.  An f64 is   *)
(* written in decimal, an Option as null or the number, a Crop as its      *)
(* name.  The decimal digits written are the exact expansion of the        *)
(* amount, which is what serde_json prints while that expansion has at     *)
(* most 17 significant digits, as every balance within MaxMoney has.       *)
(***************************************************************************)
\* the decimal digits of f / Scale after the point
RECURSIVE FractionDigits(_)
FractionDigits(f) ==
    IF f = 0 THEN <<>>
    ELSE <<(10 * f) \div Scale>> \o FractionDigits((10 * f) % Scale)

\* the multiple of 1 / Scale that the digits after the point stand for
RECURSIVE FractionValue(_)
FractionValue(digits) ==
    IF digits = <<>> THEN 0
    ELSE (Head(digits) * Scale + FractionValue(Tail(digits))) \div 10

json_from_f64(m) ==
    LET abs == IF m.w < 0 THEN MSub(MInt(0), m) ELSE m
    IN  [negative |-> m.w < 0, int |-> abs.w, frac |-> FractionDigits(abs.f)]

f64_from_json(j) ==
    LET abs == [w |-> j.int, f |-> FractionValue(j.frac)]
    IN  IF j.negative THEN MSub(MInt(0), abs) ELSE abs

json_from_option(o) ==
    IF is_some(o) THEN [json |-> "number", n |-> unwrap(o)] ELSE [json |-> "null"]

option_from_json(j) ==
    IF j.json = "null" THEN None ELSE Some(j.n)

json_from_field(field) ==
    [crop |-> field.crop, level |-> field.level,
     plant_timestamp |-> json_from_option(field.plant_timestamp)]

field_from_json(j) ==
    [crop |-> j.crop, level |-> j.level,
     plant_timestamp |-> option_from_json(j.plant_timestamp)]

\* variant: the balance is written with two decimals, as format_money shows it
to_string_two_decimals(farm) ==
    [name |-> farm.name,
     money |-> [json_from_f64(farm.money) EXCEPT
                   !.frac = SubSeq(@ \o <<0, 0>>, 1, 2)],
     fields |-> [i \in 1..Len(farm.fields) |-> json_from_field(farm.fields[i])]]

to_string(farm) ==
    [name |-> farm.name,
     money |-> json_from_f64(farm.money),
     fields |-> [i \in 1..Len(farm.fields) |-> json_from_field(farm.fields[i])]]

from_str(json) ==
    [name |-> json.name,
     money |-> f64_from_json(json.money),
     fields |-> [i \in 1..Len(json.fields) |-> field_from_json(json.fields[i])]]

\* Farm::save_to_path("save.json")
save_to_path ==
    /\ file' = Some(to_string([name |-> name, money |-> money, fields |-> fields]))
    /\ at_save' = Some([name |-> name, money |-> money, fields |-> fields])
    /\ last' = Return("save_to_path", Ok, MInt(0))
    /\ UNCHANGED <<name, money, fields, now, main_vars, cli_vars>>

\* farm = Farm::load_from_path("save.json"); without the file the read fails
\* and the session ends
load_game ==
    /\ is_some(file)
    /\ LET farm == from_str(unwrap(file))
       IN  /\ name' = farm.name
           /\ money' = farm.money
           /\ fields' = farm.fields
    /\ last' = Return("load_from_path", Ok, MInt(0))
    /\ UNCHANGED <<now, main_vars, cli_vars, disk_vars>>

(***************************************************************************)
(* Farm (main.rs, the earlier revision).  Its Crop prices and its Field    *)
(* new / planted / plant are the same text as in farm.rs and use the       *)
(* definitions above.  Its harvest and level-up compute with the           *)
(* multipliers 0.1, 0.2 and 0.4, which are not dyadic; they are not        *)
(* modelled.                                                               *)
(***************************************************************************)
main_Farm_new == [money |-> MInt(20), fields |-> <<>>]

main_buy_field(crop) ==
    LET price == get_new_field_price(crop)
    IN  /\ Len(main_fields) < MaxFields
        /\ IF MLt(main_money, price)
           THEN /\ main_last' = Return("buy_field", "InsufficientFunds", MInt(0))
                /\ UNCHANGED <<main_money, main_fields>>
           ELSE /\ main_fields' = Append(main_fields, Field_new(crop))
                /\ main_money' = MSub(main_money, price)
                /\ main_last' = Return("buy_field", Ok, MInt(0))
        /\ UNCHANGED <<farm_vars, now, disk_vars, cli_vars>>

main_plant_field(id) ==
    /\ MGt(main_money, MInt(-MaxDebt))
    /\ IF ~InBounds(main_fields, id)
       THEN /\ main_last' = Return("plant_field", "OutOfBounds", MInt(0))
            /\ UNCHANGED <<main_money, main_fields>>
       ELSE LET field == Get(main_fields, id)
                r == plant(field, now)
            IN  /\ main_money' = MSub(main_money, get_planting_price(field.crop))
                /\ main_fields' = Set(main_fields, id, r.field)
                /\ main_last' = Return("plant_field", r.res, MInt(0))
    /\ UNCHANGED <<farm_vars, now, disk_vars, cli_vars>>

(***************************************************************************)
(* The clock read by util::timestamp(): it does not run backwards, and     *)
(* two successive operations may read the same value.                      *)
(***************************************************************************)
ClockSteps == {100000}

timestamp_advances(d) ==
    /\ now + d <= MaxTime
    /\ now' = now + d
    /\ UNCHANGED <<farm_vars, main_vars, cli_vars, disk_vars>>

(***************************************************************************)
(* Start of a session (cli.rs run): a new game, or the farm that an        *)
(* earlier session saved.  A saved farm is a farm an earlier session       *)
(* reached: after buying a Wheat field, n rounds of planting and           *)
(* harvesting it at level 1 bring the balance to 10 + n/2; as every price  *)
(* is a multiple of 1/2, buying further fields and levelling fields up     *)
(* from there reaches every balance that is a multiple of 1/2, with any    *)
(* list of fields whose first field is Wheat.  A field planted in the      *)
(* earlier session carries a timestamp before the start of this one.       *)
(***************************************************************************)
SavedFarms ==
    { [money |-> MInt(26), fields |-> <<Field_new("Wheat")>>],
      [money |-> MInt(0),
       fields |-> <<Field_new("Wheat"),
                    [Field_new("Potato") EXCEPT !.plant_timestamp = Some(-200000)]>>],
      [money |-> MInt(25),
       fields |-> <<Field_new("Wheat"), [Field_new("Potato") EXCEPT !.level = 10]>>],
      [money |-> MInt(60),
       fields |-> <<Field_new("Wheat"), [Field_new("Carrot") EXCEPT !.level = 20]>>] }

load_from_path == SavedFarms

Init ==
    /\ name = "player"
    /\ \E farm \in {Farm_new} \cup load_from_path :
          /\ money = farm.money
          /\ fields = farm.fields
          /\ IF farm \in load_from_path
             THEN LET saved == [name |-> name, money |-> farm.money,
                                fields |-> farm.fields]
                  IN  file = Some(to_string(saved)) /\ at_save = Some(saved)
             ELSE file = None /\ at_save = None
    /\ now = 0
    /\ last = NoCall
    /\ main_money = main_Farm_new.money
    /\ main_fields = main_Farm_new.fields
    /\ main_last = NoCall
    /\ shown = <<>>

Next ==
    \/ \E crop \in Crop : buy_field(crop)
    \/ \E id \in Ids : level_up_field(id)
    \/ \E id \in Ids : plant_field(id)
    \/ \E id \in Ids : farm_field(id)
    \/ \E d \in ClockSteps : timestamp_advances(d)

Spec == Init /\ [][Next]_vars

\* a session of the main.rs program: it always starts with a new farm
InitMain ==
    /\ name = "player"
    /\ money = Farm_new.money
    /\ fields = Farm_new.fields
    /\ now = 0
    /\ last = NoCall
    /\ main_money = main_Farm_new.money
    /\ main_fields = main_Farm_new.fields
    /\ main_last = NoCall
    /\ shown = <<>>
    /\ file = None
    /\ at_save = None

NextMain ==
    \/ \E crop \in Crop : main_buy_field(crop)
    \/ \E id \in Ids : main_plant_field(id)
    \/ \E d \in ClockSteps : timestamp_advances(d)

SpecMain == InitMain /\ [][NextMain]_vars

\* a session that starts with a new game and in which the player also sells
\* fields
NextSell ==
    \/ Next
    \/ \E id \in Ids : sell_field(id)

SpecSell == InitMain /\ [][NextSell]_vars

\* a session of the farm.rs program that starts with a new game
SpecNewGame == InitMain /\ [][Next]_vars

\* Field::level_up_price as a function of the field: print_fields shows it for
\* every field; here the field shown is any crop at any level
InitPrice ==
    /\ name = "player"
    /\ money = Farm_new.money
    /\ \E crop \in Crop, level \in 1..MaxLevelInput :
          fields = <<[Field_new(crop) EXCEPT !.level = level]>>
    /\ now = 0
    /\ last = NoCall
    /\ main_money = main_Farm_new.money
    /\ main_fields = main_Farm_new.fields
    /\ main_last = NoCall
    /\ shown = <<>>
    /\ file = None
    /\ at_save = None

print_fields ==
    /\ LET quote == level_up_price(Get(fields, 0))
       IN  last' = Return("level_up_price", quote.res, quote.price)
    /\ UNCHANGED <<name, money, fields, now, main_vars, cli_vars, disk_vars>>

NextPrice == print_fields

SpecPrice == InitPrice /\ [][NextPrice]_vars

\* a new game of the farm.rs program in which the player also saves and loads
NextSave ==
    \/ Next
    \/ save_to_path
    \/ load_game

SpecSave == InitMain /\ [][NextSave]_vars

(***************************************************************************)
(* The wall clock (SystemTime::now) may be set back, and a save may have   *)
(* been written under a later clock than the one of this session: the      *)
(* session starts with one Growing field whose plant_timestamp is on       *)
(* either side of the clock, and print_farm shows its time_to_farm.        *)
(***************************************************************************)
ClockReads == {t \in 0..MaxTime : t % 50000 = 0}

InitClock ==
    /\ name = "player"
    /\ money = Farm_new.money
    /\ \E crop \in Crop, planted_at \in ClockReads :
          fields = <<[Field_new(crop) EXCEPT !.plant_timestamp = Some(planted_at)]>>
    /\ now \in ClockReads
    /\ last = NoCall
    /\ main_money = main_Farm_new.money
    /\ main_fields = main_Farm_new.fields
    /\ main_last = NoCall
    /\ shown = <<>>
    /\ file = None
    /\ at_save = None

timestamp_set_back(d) ==
    /\ now - d >= 0
    /\ now' = now - d
    /\ UNCHANGED <<farm_vars, main_vars, cli_vars, disk_vars>>

print_farm ==
    /\ last.res # "panic"
    /\ planted(Get(fields, 0))
    /\ \E left \in time_to_farm_any_build(Get(fields, 0), now) :
          last' = Return("time_to_farm", left.res, MInt(left.left))
    /\ UNCHANGED <<name, money, fields, now, main_vars, cli_vars, disk_vars>>

NextClock ==
    \/ print_farm
    \/ \E d \in ClockSteps : timestamp_advances(d)
    \/ \E d \in ClockSteps : timestamp_set_back(d)

SpecClock == InitClock /\ [][NextClock]_vars

\* a new game, or the saved farm with a field planted in the earlier session
InitLive ==
    /\ Init
    /\ fields = <<>> \/ \E i \in 1..Len(fields) : planted(fields[i])

(***************************************************************************)
(* The menu of cli.rs: what its entries print about the fields.  input(n)  *)
(* returns a number in 0..n and 0 leaves the entry, so an entry reaches    *)
(* the Farm operation only with an index of an owned field.                *)
(***************************************************************************)

\* variant: the time to farm is printed for every field
field_line_unguarded(field, timestamp) == time_to_farm_or_panic(field, timestamp)

\* the line of print_farm and of print_fields for one field: the time to farm
\* of a planted field, the planting price of an Idle one
field_line(field, timestamp) ==
    IF planted(field) THEN time_to_farm_or_panic(field, timestamp)
    ELSE [res |-> "idle", left |-> 0]

field_lines(fs, timestamp) == [i \in 1..Len(fs) |-> field_line(fs[i], timestamp)]

\* entry 1: print_farm
menu_farm ==
    /\ shown' = field_lines(fields, now)
    /\ UNCHANGED <<farm_vars, now, main_vars, disk_vars>>

\* entry 2: print_fields, plant_field and, after Ok, the time to farm of the
\* field just planted
menu_plant(id) ==
    /\ InBounds(fields, id)
    /\ Farm_plant_field(id)
    /\ shown' = field_lines(fields, now) \o
                (IF last'.res = Ok
                 THEN <<time_to_farm_or_panic(fields'[id + 1], now)>>
                 ELSE <<>>)

\* entry 3: print_fields and farm_field
menu_harvest(id) ==
    /\ InBounds(fields, id)
    /\ Farm_farm_field(id)
    /\ shown' = field_lines(fields, now)

\* entry 5: print_fields and level_up_field
menu_level_up(id) ==
    /\ InBounds(fields, id)
    /\ Farm_level_up_field(id)
    /\ shown' = field_lines(fields, now)

NextCli ==
    \/ menu_farm
    \/ \E id \in Ids : menu_plant(id)
    \/ \E id \in Ids : menu_harvest(id)
    \/ \E crop \in Crop : buy_field(crop)
    \/ \E id \in Ids : menu_level_up(id)
    \/ \E d \in ClockSteps : timestamp_advances(d)

SpecCli == InitLive /\ [][NextCli]_vars

(***************************************************************************)
(* A session under a clock that keeps advancing.  The clock of the model   *)
(* stops at MaxTime, so a field is planted only while its grow time still  *)
(* ends within MaxTime.                                                    *)
(***************************************************************************)
NextLive ==
    \/ \E crop \in Crop : buy_field(crop)
    \/ \E id \in Ids : level_up_field(id)
    \/ \E id \in Ids :
          /\ plant_field(id)
          /\ last'.res = Ok => now + grow_time(Get(fields, id).crop) <= MaxTime
         
    \/ \E id \in Ids : farm_field(id)
    \/ \E d \in ClockSteps : timestamp_advances(d)

SpecLive ==
    /\ InitLive
    /\ [][NextLive]_vars
    /\ WF_vars(\E d \in ClockSteps : timestamp_advances(d))

(***************************************************************************)
(* Properties.  A property of one call is stated over the step the call    *)
(* takes: the unprimed variables are the farm before the call, the primed  *)
(* ones the farm after it, and last' is what the call returned.            *)
(***************************************************************************)

\* C1: every Farm operation that returns an error leaves the farm as it was
\* before the call (money and every field unchanged).
C1_ErrorLeavesFarmUnchanged ==
    [][last'.res # Ok => money' = money /\ fields' = fields]_vars

\* C2: in every state reachable from Farm::new by buy_field, plant_field,
\* farm_field and level_up_field calls, successful or failing, money >= 0.
C2_MoneyNonNegative == money.w >= 0

C2_Witness ==
    /\ last.op = "plant_field"
    /\ last.res = "InsufficientFunds"
    /\ money = MInt(0)

\* C3: plant_field on a valid index with money below the planting price of
\* the field's crop fails with InsufficientFunds, debits nothing and does not
\* mark the field Growing, in the Farm of farm.rs and in the Farm of main.rs.
C3_PlantChecksFunds ==
    [][\A id \in Ids :
        LET PlantingPrice == [Wheat |-> 1, Potato |-> 20, Carrot |-> 50]
        IN  /\ (/\ plant_field(id)
                /\ id < Len(fields)
                /\ MLt(money, MInt(PlantingPrice[fields[id + 1].crop])))
               => (/\ last'.res = "InsufficientFunds"
                   /\ money' = money
                   /\ fields' = fields)
            /\ (/\ main_plant_field(id)
                /\ id < Len(main_fields)
                /\ MLt(main_money, MInt(PlantingPrice[main_fields[id + 1].crop])))
               => (/\ main_last'.res = "InsufficientFunds"
                   /\ main_money' = main_money
                   /\ main_fields' = main_fields)]_vars

\* C4: in every reachable state every field has 1 <= level <= max level of
\* its crop (Wheat 5, Potato 10, Carrot 20).
C4_LevelWithinBounds ==
    LET MaxLevel == [Wheat |-> 5, Potato |-> 10, Carrot |-> 20]
    IN  \A i \in 1..Len(fields) :
            /\ 1 <= fields[i].level
            /\ fields[i].level <= MaxLevel[fields[i].crop]

C4_Witness ==
    /\ last.op = "level_up_field"
    /\ last.res = Ok
    /\ \E i \in 1..Len(fields) : fields[i].crop = "Wheat" /\ fields[i].level = 5

\* C5: buy_field(kind) succeeds exactly when money >= new-field price of kind
\* (money = price included); on success money decreases by exactly the price
\* and the field list is the old list with one Idle level-1 field of that
\* kind appended.
C5_BuyField ==
    [][\A crop \in Crop :
        buy_field(crop) =>
            LET NewFieldPrice == [Wheat |-> 10, Potato |-> 100, Carrot |-> 1000]
                price == MInt(NewFieldPrice[crop])
            IN  /\ last'.res = Ok <=> ~MLt(money, price)
                /\ last'.res = Ok =>
                      /\ MAdd(money', price) = money
                      /\ fields' = fields \o
                            <<[crop |-> crop, level |-> 1, plant_timestamp |-> <<>>]>>]_vars

C5_Witness ==
    /\ last.op = "buy_field"
    /\ last.res = Ok
    /\ money = MInt(0)
    /\ Len(fields) = 2
    /\ fields[2] = [crop |-> "Wheat", level |-> 1, plant_timestamp |-> <<>>]

\* C6: buy_field(kind) with money below the new-field price of kind returns
\* InsufficientFunds and leaves the balance and the field list unchanged.
C6_BuyFieldInsufficientFunds ==
    [][\A crop \in Crop :
        LET NewFieldPrice == [Wheat |-> 10, Potato |-> 100, Carrot |-> 1000]
        IN  (buy_field(crop) /\ MLt(money, MInt(NewFieldPrice[crop])))
            => (/\ last'.res = "InsufficientFunds"
                /\ money' = money
                /\ fields' = fields)]_vars

C6_Witness ==
    /\ last.op = "buy_field"
    /\ last.res = "InsufficientFunds"
    /\ Len(fields) = 1
    /\ MLt(money, MInt(10))

\* C7: farm_field on a Growing field whose grow time has not elapsed
\* (now - planted_at < grow time) fails with NotYetReady and the field keeps
\* its plant_timestamp; farm_field on an Idle field fails with AlreadyFarmed.
C7_FarmFieldNotReady ==
    [][\A id \in Ids :
        (farm_field(id) /\ id < Len(fields)) =>
            LET GrowMillis == [Wheat |-> 100000, Potato |-> 300000, Carrot |-> 1000000]
                field == fields[id + 1]
            IN  /\ (/\ field.plant_timestamp # <<>>
                    /\ now - field.plant_timestamp[1] < GrowMillis[field.crop])
                   => (/\ last'.res = "NotYetReady"
                       /\ fields' = fields
                       /\ money' = money)
                /\ field.plant_timestamp = <<>>
                   => (/\ last'.res = "AlreadyFarmed"
                       /\ fields' = fields
                       /\ money' = money)]_vars

C7_Witness ==
    /\ last.op = "farm_field"
    /\ last.res = "NotYetReady"
    /\ \E i \in 1..Len(fields) :
          /\ fields[i].plant_timestamp # <<>>
          /\ now - fields[i].plant_timestamp[1] > 0
          /\ now - fields[i].plant_timestamp[1] < 300000
          /\ fields[i].crop = "Potato"
    /\ \E i \in 1..Len(fields) : fields[i].plant_timestamp = <<>>

\* C8: farm_field on a Growing field at any time now >= planted_at + grow
\* time (equality included) succeeds: it returns payout * 1.5^level at the
\* field's level, adds exactly that to money, sets the field Idle and leaves
\* its level unchanged.
C8_FarmFieldReady ==
    [][\A id \in Ids :
        (farm_field(id) /\ id < Len(fields)) =>
            LET GrowMillis == [Wheat |-> 100000, Potato |-> 300000, Carrot |-> 1000000]
                Payout == [Wheat |-> 1, Potato |-> 10, Carrot |-> 100]
                field == fields[id + 1]
                \* payout * (3/2)^n
                grown[n \in 0..field.level] ==
                    IF n = 0 THEN MInt(Payout[field.crop])
                    ELSE MAdd(grown[n - 1], MHalf(grown[n - 1]))
            IN  (/\ field.plant_timestamp # <<>>
                 /\ now >= field.plant_timestamp[1] + GrowMillis[field.crop])
                => (/\ last'.res = Ok
                    /\ last'.amount = grown[field.level]
                    /\ money' = MAdd(money, last'.amount)
                    /\ fields' = [fields EXCEPT ![id + 1] =
                                    [crop |-> field.crop, level |-> field.level,
                                     plant_timestamp |-> <<>>]])]_vars

C8_Witness ==
    /\ last.op = "farm_field"
    /\ last.res = Ok
    /\ last.amount = [w |-> 7, f |-> 19 * 2^15]
    /\ \E i \in 1..Len(fields) :
          /\ fields[i].crop = "Wheat"
          /\ fields[i].level = 5
          /\ fields[i].plant_timestamp = <<>>

\* C9: from level 1 with sufficient funds level_up_field succeeds until the
\* field is at its max level, max_level - 1 times; at max level every attempt
\* fails with MaxLevelReached, not InsufficientFunds, whatever the balance.
C9_LevelUpUntilMax ==
    [][\A id \in Ids :
        (level_up_field(id) /\ id < Len(fields)) =>
            LET MaxLevel == [Wheat |-> 5, Potato |-> 10, Carrot |-> 20]
                PlantingPrice == [Wheat |-> 1, Potato |-> 20, Carrot |-> 50]
                field == fields[id + 1]
                price == MHalf(MHalf(MInt(PlantingPrice[field.crop] * 10 * field.level)))
            IN  IF field.level >= MaxLevel[field.crop]
                THEN /\ last'.res = "MaxLevelReached"
                     /\ fields' = fields
                     /\ money' = money
                ELSE MLe(price, money) =>
                        /\ last'.res = Ok
                        /\ fields'[id + 1].level = field.level + 1
                        /\ fields'[id + 1].level <= MaxLevel[field.crop]]_vars

C9_Witness ==
    /\ last.op = "level_up_field"
    /\ last.res = "MaxLevelReached"
    /\ money = MInt(0)
    /\ \E i \in 1..Len(fields) : fields[i].crop = "Wheat" /\ fields[i].level = 5

\* C10: a successful level_up_field raises the level by exactly 1 and debits
\* exactly planting_price * 10 * (level_multiplier / 2) * L, L the level
\* before the call, the amount the funds check compared with money; the call
\* succeeds exactly when that amount <= money and L < max level.
C10_LevelUpPrice ==
    [][\A id \in Ids :
        (level_up_field(id) /\ id < Len(fields)) =>
            LET MaxLevel == [Wheat |-> 5, Potato |-> 10, Carrot |-> 20]
                PlantingPrice == [Wheat |-> 1, Potato |-> 20, Carrot |-> 50]
                field == fields[id + 1]
                price == MHalf(MHalf(MInt(PlantingPrice[field.crop] * 10 * field.level)))
            IN  /\ last'.res = Ok
                   <=> (MLe(price, money) /\ field.level < MaxLevel[field.crop])
                /\ last'.res = Ok =>
                      /\ fields' = [fields EXCEPT ![id + 1] =
                                      [crop |-> field.crop, level |-> field.level + 1,
                                       plant_timestamp |-> field.plant_timestamp]]
                      /\ MAdd(money', price) = money]_vars

C10_Witness ==
    /\ last.op = "level_up_field"
    /\ last.res = Ok
    /\ money = [w |-> 2, f |-> 2^19]
    /\ \E i \in 1..Len(fields) : fields[i].crop = "Wheat" /\ fields[i].level = 3

\* C11: for every index >= number of fields, plant_field, farm_field and
\* level_up_field return OutOfBounds, whatever the balance and the state of
\* the fields, and change nothing.
C11_OutOfBounds ==
    [][\A id \in Ids :
        (id >= Len(fields) /\ (plant_field(id) \/ farm_field(id) \/ level_up_field(id)))
        => (/\ last'.res = "OutOfBounds"
            /\ money' = money
            /\ fields' = fields
            /\ name' = name)]_vars

C11_Witness ==
    /\ last.op = "farm_field"
    /\ last.res = "OutOfBounds"
    /\ Len(fields) = 2
    /\ \E i \in 1..Len(fields) :
          /\ fields[i].plant_timestamp # <<>>
          /\ now >= fields[i].plant_timestamp[1] + 100000
          /\ fields[i].crop = "Wheat"
    /\ MLe(MInt(1), money)

\* C12: for every crop kind level_up_price is defined and monotonically
\* non-decreasing in the level for 1 <= level < max level, and is the error
\* MaxLevelReached for every level >= max level.
C12_LevelUpPriceMonotone ==
    last.op = "level_up_price" =>
        LET MaxLevel == [Wheat |-> 5, Potato |-> 10, Carrot |-> 20]
            field == fields[1]
        IN  IF field.level >= MaxLevel[field.crop]
            THEN last.res = "MaxLevelReached"
            ELSE /\ last.res = Ok
                 /\ \A l \in 1..field.level :
                       LET lower == level_up_price([field EXCEPT !.level = l])
                       IN  lower.res = Ok /\ MLe(lower.price, last.amount)

C12_Witness ==
    /\ last.op = "level_up_price"
    /\ last.res = Ok
    /\ fields[1].crop = "Carrot"
    /\ fields[1].level = 19
    /\ last.amount = MInt(2375)

\* C13: a new farm starts with money 20 and no fields; from there
\* buy_field(Wheat) gives money 10 and one Idle level-1 field, plant_field(0)
\* gives money 9 and the field Growing, and once the clock has advanced by at
\* least the Wheat grow time farm_field(0) adds the level-1 Wheat earnings to
\* money and returns the field to Idle.
C13_FirstHarvest ==
    /\ money = MInt(20) /\ fields = <<>>
    /\ [][LET idle == [crop |-> "Wheat", level |-> 1, plant_timestamp |-> <<>>]
              growing == [crop |-> "Wheat", level |-> 1, plant_timestamp |-> <<now>>]
          IN  /\ (money = MInt(20) /\ fields = <<>> /\ buy_field("Wheat"))
                 => (last'.res = Ok /\ money' = MInt(10) /\ fields' = <<idle>>)
              /\ (money = MInt(10) /\ fields = <<idle>> /\ plant_field(0))
                 => (last'.res = Ok /\ money' = MInt(9) /\ fields' = <<growing>>)
              /\ (/\ money = MInt(9)
                  /\ Len(fields) = 1
                  /\ fields[1].crop = "Wheat"
                  /\ fields[1].level = 1
                  /\ fields[1].plant_timestamp # <<>>
                  /\ now >= fields[1].plant_timestamp[1] + 100000
                  /\ farm_field(0))
                 => (/\ last'.res = Ok
                     /\ last'.amount = [w |-> 1, f |-> 2^19]
                     /\ money' = [w |-> 10, f |-> 2^19]
                     /\ fields' = <<idle>>)]_vars

C13_Witness ==
    /\ last.op = "farm_field"
    /\ last.res = Ok
    /\ money = [w |-> 10, f |-> 2^19]
    /\ fields = <<[crop |-> "Wheat", level |-> 1, plant_timestamp |-> <<>>]>>

C15_TimeToFarm ==
    \A i \in 1..Len(fields) :
        (fields[i].plant_timestamp # <<>> /\ now >= fields[i].plant_timestamp[1]) =>
            LET GrowMillis == [Wheat |-> 100000, Potato |-> 300000, Carrot |-> 1000000]
                grow == GrowMillis[fields[i].crop]
                planted_at == fields[i].plant_timestamp[1]
                left == time_to_farm(fields[i], now)
            IN  /\ left = IF grow - (now - planted_at) > 0
                          THEN grow - (now - planted_at) ELSE 0
                /\ now = planted_at => left = grow
                /\ now >= planted_at + grow => left = 0

C15_Witness ==
    /\ Len(fields) = 2
    /\ fields[1].plant_timestamp # <<>>
    /\ now > fields[1].plant_timestamp[1] + 100000
    /\ fields[1].crop = "Wheat"
    /\ fields[2].plant_timestamp = <<now>>

\* C16: every Farm operation returns success or exactly one of
\* InsufficientFunds, MaxLevelReached, OutOfBounds, AlreadyPlanted,
\* AlreadyFarmed, NotYetReady; TooManyFields is never produced, and no
\* operation aborts: the unwrap and the subtraction of time_to_farm are
\* reached only with a plant_timestamp that is present and not above the clock.
C16_ErrorKinds ==
    /\ last.res \in {"Ok", "InsufficientFunds", "MaxLevelReached", "OutOfBounds",
                     "AlreadyPlanted", "AlreadyFarmed", "NotYetReady"}
    /\ last.op = "buy_field" => last.res \in {"Ok", "InsufficientFunds"}
    /\ last.op = "plant_field"
          => last.res \in {"Ok", "OutOfBounds", "InsufficientFunds", "AlreadyPlanted"}
    /\ last.op = "farm_field"
          => last.res \in {"Ok", "OutOfBounds", "AlreadyFarmed", "NotYetReady"}
    /\ last.op = "level_up_field"
          => last.res \in {"Ok", "OutOfBounds", "InsufficientFunds", "MaxLevelReached"}
    /\ \A i \in 1..Len(fields) :
          fields[i].plant_timestamp # <<>> => fields[i].plant_timestamp[1] <= now

C16_Witness ==
    /\ last.op = "buy_field"
    /\ last.res = "InsufficientFunds"
    /\ Len(fields) = 1
    /\ fields[1].plant_timestamp # <<>>
    /\ fields[1].plant_timestamp[1] < now

\* C17: plant_field on a field that is already Growing, with sufficient
\* funds, fails with AlreadyPlanted and does not overwrite the field's
\* plant_timestamp: a repeated plant never restarts or shortens the timer.
C17_AlreadyPlanted ==
    [][\A id \in Ids :
        (plant_field(id) /\ id < Len(fields)) =>
            LET PlantingPrice == [Wheat |-> 1, Potato |-> 20, Carrot |-> 50]
                field == fields[id + 1]
            IN  (/\ field.plant_timestamp # <<>>
                 /\ MLe(MInt(PlantingPrice[field.crop]), money))
                => (/\ last'.res = "AlreadyPlanted"
                    /\ fields'[id + 1].plant_timestamp = field.plant_timestamp
                    /\ fields' = fields)]_vars

C17_Witness ==
    /\ last.op = "plant_field"
    /\ last.res = "AlreadyPlanted"
    /\ \A i \in 1..Len(fields) :
          fields[i].plant_timestamp # <<>> /\ fields[i].plant_timestamp[1] < now

\* C18: for each field successful plants and successful harvests strictly
\* alternate, starting with a plant: a field is bought Idle, a successful
\* plant takes it from Idle to Growing, a successful harvest from Growing to
\* Idle, and nothing else changes whether it is Growing; so no field is
\* harvested twice for one planting or planted twice without a harvest.
C18_PlantHarvestAlternate ==
    [][/\ \A id \in Ids :
            /\ (plant_field(id) /\ last'.res = Ok)
               => (/\ fields[id + 1].plant_timestamp = <<>>
                   /\ fields'[id + 1].plant_timestamp # <<>>)
            /\ (farm_field(id) /\ last'.res = Ok)
               => (/\ fields[id + 1].plant_timestamp # <<>>
                   /\ fields'[id + 1].plant_timestamp = <<>>)
       /\ \A i \in 1..Len(fields) :
            (fields'[i].plant_timestamp # fields[i].plant_timestamp)
            => \/ plant_field(i - 1) /\ last'.res = Ok
               \/ farm_field(i - 1) /\ last'.res = Ok
       /\ \A i \in (Len(fields) + 1)..Len(fields') :
            fields'[i].plant_timestamp = <<>>]_vars

C18_Witness ==
    /\ last.op = "plant_field"
    /\ last.res = Ok
    /\ money = [w |-> 9, f |-> 2^19]
    /\ fields = <<[crop |-> "Wheat", level |-> 1, plant_timestamp |-> <<now>>]>>
    /\ now >= 100000

\* C19: a field's level never decreases: plant_field, farm_field, buy_field
\* and every failing call leave every level unchanged; only a successful
\* level_up_field changes a level, by exactly +1, on the addressed field.
C19_LevelMonotone ==
    [][/\ Len(fields') >= Len(fields)
       /\ \A i \in 1..Len(fields) :
            \/ fields'[i].level = fields[i].level
            \/ /\ fields'[i].level = fields[i].level + 1
               /\ level_up_field(i - 1)
               /\ last'.res = Ok
               /\ \A j \in 1..Len(fields) : j # i => fields'[j].level = fields[j].level
       /\ (last'.op # "level_up_field" \/ last'.res # Ok)
            => \A i \in 1..Len(fields) : fields'[i].level = fields[i].level]_vars

C19_Witness ==
    /\ last.op = "farm_field"
    /\ last.res = Ok
    /\ Len(fields) = 2
    /\ fields[1].level = 3
    /\ fields[2].level = 2
    /\ fields[1].plant_timestamp = <<>>
    /\ fields[2].plant_timestamp # <<>>

\* C20 as claimed: plant_field, farm_field and level_up_field on index i
\* change no field other than field i and never the number or order of the
\* fields; the field list only ever grows, by buy_field appending at the end,
\* so a field's index and crop never change once it is bought.
C20_FieldListOnlyGrows ==
    [][/\ \A id \in Ids :
            (plant_field(id) \/ farm_field(id) \/ level_up_field(id))
            => /\ Len(fields') = Len(fields)
               /\ \A j \in 1..Len(fields) : j # id + 1 => fields'[j] = fields[j]
       /\ Len(fields') >= Len(fields)
       /\ \A i \in 1..Len(fields) : fields'[i].crop = fields[i].crop
       /\ Len(fields') > Len(fields)
            => \E crop \in Crop :
                  /\ buy_field(crop)
                  /\ Len(fields') = Len(fields) + 1
                  /\ SubSeq(fields', 1, Len(fields)) = fields
                  /\ fields'[Len(fields')].crop = crop]_vars

\* C20 amended: plant_field, farm_field and level_up_field on index i change
\* no field other than field i and never the number or order of the fields;
\* the field list changes its length only by buy_field appending one field at
\* the end or by sell_field(i) removing field i, which moves every later
\* field down by one; every other step keeps each field's index and crop.
C20_FieldListBuySell ==
    [][/\ \A id \in Ids :
            (plant_field(id) \/ farm_field(id) \/ level_up_field(id))
            => /\ Len(fields') = Len(fields)
               /\ \A j \in 1..Len(fields) : j # id + 1 => fields'[j] = fields[j]
       /\ Len(fields') = Len(fields)
            => \A i \in 1..Len(fields) : fields'[i].crop = fields[i].crop
       /\ Len(fields') > Len(fields)
            => \E crop \in Crop :
                  /\ buy_field(crop)
                  /\ Len(fields') = Len(fields) + 1
                  /\ SubSeq(fields', 1, Len(fields)) = fields
                  /\ fields'[Len(fields')].crop = crop
       /\ Len(fields') < Len(fields)
            => \E id \in Ids :
                  /\ sell_field(id)
                  /\ id < Len(fields)
                  /\ Len(fields') = Len(fields) - 1
                  /\ \A j \in 1..Len(fields') :
                        fields'[j] = IF j <= id THEN fields[j] ELSE fields[j + 1]]_vars

C20_Witness ==
    /\ last.op = "sell_field"
    /\ last.res = Ok
    /\ Len(fields) = 1
    /\ is_some(fields[1].plant_timestamp)

\* C21: for a Growing field, time_to_farm(now) returns a value in
\* 0..=grow_time for every timestamp now, including a timestamp earlier than
\* planted_at: the subtraction now - planted_at never underflows or aborts.
C21_TimeToFarmAnyClock ==
    last.op = "time_to_farm" =>
        LET GrowMillis == [Wheat |-> 100000, Potato |-> 300000, Carrot |-> 1000000]
        IN  /\ last.res = Ok
            /\ last.amount.f = 0
            /\ last.amount.w \in 0..GrowMillis[fields[1].crop]

\* C22: under a non-decreasing clock that keeps advancing, every Growing
\* field eventually becomes harvestable (time_to_farm = 0), and once
\* harvestable it stays harvestable until it is successfully harvested;
\* level-ups, operations on other fields and failed calls never make a mature
\* field immature again or postpone the maturity of a Growing field.
C22_Growing(i) == i <= Len(fields) /\ fields[i].plant_timestamp # <<>>

C22_Harvestable(i) == C22_Growing(i) /\ time_to_farm(fields[i], now) = 0

C22_EventuallyHarvestable ==
    /\ \A i \in 1..MaxFields : C22_Growing(i) ~> C22_Harvestable(i)
    /\ [][\A i \in 1..MaxFields :
            LET harvested == farm_field(i - 1) /\ last'.res = Ok
            IN  /\ (C22_Harvestable(i) /\ ~harvested) => C22_Harvestable(i)'
                /\ (C22_Growing(i) /\ ~harvested)
                      => fields'[i].plant_timestamp = fields[i].plant_timestamp]_vars

C22_Witness ==
    /\ last.op = "level_up_field"
    /\ last.res = Ok
    /\ fields = <<[crop |-> "Wheat", level |-> 2, plant_timestamp |-> <<0>>]>>
    /\ now = 200000

\* C23: time_to_farm is never evaluated on an Idle field: Field::farm reaches
\* it only after the planted() check, and the menu calls it only on fields for
\* which planted() holds or directly after a successful plant_field, so the
\* unwrap of plant_timestamp does not abort in any reachable state.
C23_NoUnwrapOfIdle ==
    /\ [](\A i \in 1..Len(shown) : shown[i].res # "panic")
    /\ [][\A id \in Ids :
            (Farm_farm_field(id) /\ last'.res \in {Ok, "NotYetReady"})
            => InBounds(fields, id) /\ planted(Get(fields, id))]_vars

C23_Witness ==
    /\ last.op = "plant_field"
    /\ last.res = Ok
    /\ Len(fields) = 1
    /\ shown = <<[res |-> "idle", left |-> 0], [res |-> Ok, left |-> 100000]>>

\* C24: the game cannot soft-lock: in every state reachable from Farm::new
\* some field is Growing, or money suffices to plant an owned field, or money
\* suffices to buy a new field and then plant it.
C24_NoSoftLock ==
    \/ \E i \in 1..Len(fields) : planted(fields[i])
    \/ \E i \in 1..Len(fields) : MLe(get_planting_price(fields[i].crop), money)
    \/ \E crop \in Crop :
          MLe(MAdd(get_new_field_price(crop), get_planting_price(crop)), money)

====
